---- MODULE Spec2Model ----
(***************************************************************************)
(* Trace-context propagation of contrib/google.golang.org/grpc/grpc.go:    *)
(* the unary server and client interceptors and the codec (setIDs, getIDs, *)
(* getID) that carries (TraceID, ParentID) in the gRPC metadata.           *)
(***************************************************************************)
EXTENDS Integers, Sequences, FiniteSets, TLC

(***************************************************************************)
(* 64-bit unsigned integers.  TLC's integers are 32 bits wide, so a uint64 *)
(* is held as four 16-bit limbs, most significant first.  A string is a    *)
(* sequence of one-character strings.                                      *)
(***************************************************************************)
LimbBase == 2^16
NLimbs == 64 \div 16

Zero64 == <<0, 0, 0, 0>>
Max64 == <<LimbBase - 1, LimbBase - 1, LimbBase - 1, LimbBase - 1>>
\* 2^63: the smallest uint64 that is no int64
Two63 == <<2^15, 0, 0, 0>>
\* a small natural number as a uint64
U64(n) == <<0, 0, n \div LimbBase, n % LimbBase>>

IsZero(x) == x = Zero64

\* x < y on uint64, limb by limb from the most significant one
RECURSIVE LessFrom(_, _, _)
LessFrom(x, y, i) ==
  IF i > NLimbs THEN FALSE
  ELSE IF x[i] # y[i] THEN x[i] < y[i]
  ELSE LessFrom(x, y, i + 1)
Less64(x, y) == LessFrom(x, y, 1)

\* long division of x by 10: [q |-> quotient, r |-> remainder]
RECURSIVE DivFrom(_, _, _, _)
DivFrom(x, i, rem, acc) ==
  IF i > NLimbs THEN [q |-> acc, r |-> rem]
  ELSE LET cur == rem * LimbBase + x[i]
       IN  DivFrom(x, i + 1, cur % 10, Append(acc, cur \div 10))
DivMod10(x) == DivFrom(x, 1, 0, <<>>)

\* x * 10 + d: [ovf |-> the result needs more than 64 bits, val |-> low 64 bits]
RECURSIVE MulAddFrom(_, _, _, _)
MulAddFrom(x, i, carry, acc) ==
  IF i = 0 THEN [ovf |-> carry > 0, val |-> acc]
  ELSE LET t == x[i] * 10 + carry
       IN  MulAddFrom(x, i - 1, t \div LimbBase, <<t % LimbBase>> \o acc)
MulAdd10(x, d) == MulAddFrom(x, NLimbs, d, <<>>)

\* x + 1 modulo 2^64
RECURSIVE IncFrom(_, _, _, _)
IncFrom(x, i, carry, acc) ==
  IF i = 0 THEN acc
  ELSE LET t == x[i] + carry
       IN  IncFrom(x, i - 1, t \div LimbBase, <<t % LimbBase>> \o acc)
Inc64(x) == IncFrom(x, NLimbs, 1, <<>>)

\* -x modulo 2^64 (two's complement)
Neg64(x) == Inc64([i \in 1..NLimbs |-> (LimbBase - 1) - x[i]])

Digits == <<"0", "1", "2", "3", "4", "5", "6", "7", "8", "9">>
IsDigit(ch) == \E i \in 1..Len(Digits) : Digits[i] = ch
DigitVal(ch) == (CHOOSE i \in 1..Len(Digits) : Digits[i] = ch) - 1

(***************************************************************************)
(* fmt.Sprint of a uint64: its decimal digits, no sign, no leading zeros.  *)
(***************************************************************************)
RECURSIVE DecDigits(_)
DecDigits(x) ==
  IF IsZero(x) THEN <<>>
  ELSE LET d == DivMod10(x) IN Append(DecDigits(d.q), Digits[d.r + 1])
Sprint(x) == IF IsZero(x) THEN <<"0">> ELSE DecDigits(x)

(***************************************************************************)
(* strconv.Atoi on a 64-bit build: an optional sign, then one or more      *)
(* decimal digits, the value within [-2^63, 2^63 - 1]; anything else is an *)
(* error.  The int is held as sign and magnitude.                          *)
(***************************************************************************)
AtoiErr == [err |-> TRUE, neg |-> FALSE, mag |-> Zero64]

RECURSIVE ParseMag(_, _, _)
ParseMag(s, i, n) ==
  IF i > Len(s) THEN [ovf |-> FALSE, val |-> n]
  ELSE LET m == MulAdd10(n, DigitVal(s[i]))
       IN  IF m.ovf THEN m ELSE ParseMag(s, i + 1, m.val)

Atoi(str) ==
  IF str = <<>> THEN AtoiErr
  ELSE LET signed == str[1] \in {"+", "-"}
           neg    == str[1] = "-"
           ds     == IF signed THEN Tail(str) ELSE str
       IN  IF ds = <<>> \/ \E i \in 1..Len(ds) : ~IsDigit(ds[i]) THEN AtoiErr
           ELSE LET m == ParseMag(ds, 1, Zero64)
                IN  IF m.ovf THEN AtoiErr
                    ELSE IF ~neg /\ ~Less64(m.val, Two63) THEN AtoiErr
                    ELSE IF neg /\ Less64(Two63, m.val) THEN AtoiErr
                    ELSE [err |-> FALSE, neg |-> neg, mag |-> m.val]

\* the conversion uint64(id) of an int: the same 64 bits, read unsigned
ToUint64(id) == IF id.neg THEN Neg64(id.mag) ELSE id.mag

(***************************************************************************)
(* google.golang.org/grpc/metadata: an MD maps a key to the ordered list   *)
(* of its values.  A lookup in a context gives (md, ok).                   *)
(***************************************************************************)
traceIDKey == "x-datadog-trace-id"
parentIDKey == "x-datadog-parent-id"

EmptyMD == [k \in {} |-> <<>>]
NoMD == [ok |-> FALSE, md |-> EmptyMD]
SomeMD(md) == [ok |-> TRUE, md |-> md]

\* md[name]: a key that is not there reads as the empty list
Values(md, name) == IF name \in DOMAIN md THEN md[name] ELSE <<>>

\* metadata.New(map[string]string{k1: v1, k2: v2}): one value per key
MDNew(k1, v1, k2, v2) == (k1 :> <<v1>>) @@ (k2 :> <<v2>>)

\* metadata.Join(a, b): per key, the values of a and then the values of b
MDJoin(a, b) == [k \in DOMAIN a \cup DOMAIN b |-> Values(a, k) \o Values(b, k)]

(***************************************************************************)
(* The call context: the incoming and the outgoing metadata and the span   *)
(* bound to it.  A bound span is known by the call that created it (ref, 0 *)
(* for a span made outside the interceptors) and its identifiers.          *)
(***************************************************************************)
NoSpanRef == [ok |-> FALSE, ref |-> 0, TraceID |-> Zero64, SpanID |-> Zero64, Service |-> ""]
SpanRef(ref, span) ==
  [ok |-> TRUE, ref |-> ref, TraceID |-> span.TraceID, SpanID |-> span.SpanID,
   Service |-> span.Service]

FromIncomingContext(ctx) == ctx.incoming
NewOutgoingContext(ctx, md) == [ctx EXCEPT !.outgoing = SomeMD(md)]
ContextWithSpan(ctx, ref, span) == [ctx EXCEPT !.span = SpanRef(ref, span)]

(***************************************************************************)
(* The tracer's spans.                                                     *)
(***************************************************************************)
NoErr == "nil"
EmptyMeta == [k \in {} |-> ""]

NoSpan ==
  [exists |-> FALSE, Name |-> "", Service |-> "", Resource |-> "", Type |-> "",
   SpanID |-> Zero64, TraceID |-> Zero64, ParentID |-> Zero64,
   Meta |-> EmptyMeta, Err |-> NoErr, finished |-> FALSE, nfinish |-> 0,
   late |-> FALSE, assigned |-> <<Zero64, Zero64>>]

NewSpan(name, service, resource, spanID, traceID, parentID) ==
  [exists |-> TRUE, Name |-> name, Service |-> service, Resource |-> resource,
   Type |-> "", SpanID |-> spanID, TraceID |-> traceID, ParentID |-> parentID,
   Meta |-> EmptyMeta, Err |-> NoErr, finished |-> FALSE, nfinish |-> 0,
   late |-> FALSE, assigned |-> <<traceID, parentID>>]

\* Tracer.NewRootSpan: a new trace, the span its own root
NewRootSpan(name, service, resource, fresh) ==
  NewSpan(name, service, resource, fresh, fresh, Zero64)

\* tracer.StartSpanWithContext: a child of the span bound to ctx; with none
\* bound, a span whose three identifiers are the fresh one
StartSpan(ctx, name, fresh) ==
  IF ctx.span.ok
  THEN NewSpan(name, ctx.span.Service, name, fresh, ctx.span.TraceID, ctx.span.SpanID)
  ELSE NewSpan(name, "", name, fresh, fresh, fresh)

\* Span.SetMeta; late records a write to a span that was already finished
SetMeta(span, key, value) ==
  [span EXCEPT !.Meta = (key :> value) @@ @, !.late = @ \/ span.finished]

\* Span.FinishWithErr
FinishWithErr(span, err) ==
  [span EXCEPT !.Err = err, !.finished = TRUE, !.nfinish = @ + 1,
               !.late = @ \/ span.finished]

\* grpc.Code(err).String()
CodeString(err) ==
  IF err = NoErr THEN "OK"
  ELSE IF err = "Canceled" THEN "Canceled"
  ELSE "Unknown"

(***************************************************************************)
(* The codec.                                                              *)
(***************************************************************************)
\* getID: the first value under name that Atoi accepts, converted to uint64
RECURSIVE getIDFrom(_, _)
getIDFrom(strs, i) ==
  IF i > Len(strs) THEN Zero64
  ELSE LET id == Atoi(strs[i])
       IN  IF ~id.err THEN ToUint64(id) ELSE getIDFrom(strs, i + 1)
getID(md, name) == getIDFrom(Values(md, name), 1)

\* getIDs: <<traceID, parentID>> from the incoming metadata of ctx
getIDs(ctx) ==
  LET in == FromIncomingContext(ctx)
      t  == IF in.ok THEN getID(in.md, traceIDKey) ELSE Zero64
      p  == IF in.ok THEN getID(in.md, parentIDKey) ELSE Zero64
  IN  <<IF ~IsZero(t) THEN t ELSE Zero64, IF ~IsZero(p) THEN p ELSE Zero64>>

\* setIDs: ctx with the span's identifiers in its outgoing metadata
setIDs(span, ctx) ==
  IF ~span.exists \/ IsZero(span.TraceID) THEN ctx
  ELSE LET md       == MDNew(traceIDKey, Sprint(span.TraceID),
                             parentIDKey, Sprint(span.ParentID))
           existing == FromIncomingContext(ctx)
       IN  NewOutgoingContext(ctx, IF existing.ok THEN MDJoin(existing.md, md) ELSE md)

\* serverSpan with || for &&: one decoded identifier is enough to overwrite
serverSpanEither(ctx, method, service, fresh) ==
  LET root == NewRootSpan("grpc.server", service, method, fresh)
      span == [SetMeta(root, "gprc.method", method) EXCEPT !.Type = "go"]
      ids  == getIDs(ctx)
  IN  IF ~IsZero(ids[1]) \/ ~IsZero(ids[2])
      THEN [span EXCEPT !.TraceID = ids[1], !.ParentID = ids[2]]
      ELSE span

\* serverSpan: the span of a server call
serverSpan(ctx, method, service, fresh) ==
  LET root == NewRootSpan("grpc.server", service, method, fresh)
      span == [SetMeta(root, "gprc.method", method) EXCEPT !.Type = "go"]
      ids  == getIDs(ctx)
  IN  IF ~IsZero(ids[1]) /\ ~IsZero(ids[2])
      THEN [span EXCEPT !.TraceID = ids[1], !.ParentID = ids[2]]
      ELSE span

(***************************************************************************)
(* State.                                                                  *)
(***************************************************************************)
VARIABLES
  cfg,      \* the interceptorConfig each constructor resolved
  enabled,  \* what Tracer.Enabled() reports
  calls,    \* the calls going through the interceptors
  spans,    \* spans[c]: the span that call c created
  probe     \* one getID lookup: its metadata, its key and its result

vars == <<cfg, enabled, calls, spans, probe>>

EmptyCtx == [incoming |-> NoMD, outgoing |-> NoMD, span |-> NoSpanRef]
NoResult == [resp |-> "", err |-> NoErr]

\* a call that has not started.  ctx, method, req: what the interceptor was
\* called with; traced: what Enabled() reported to it; hctx, hmethod, hreq,
\* hcalls: what the wrapped handler or invoker was called with and how often;
\* hres: what it returned; ret: what the interceptor returned; ids, ndecode:
\* the result and the number of getIDs; from: the client call whose carrier
\* the transport delivered (0: none); log: the steps in their order
IdleCall ==
  [pc |-> "idle", kind |-> "none", from |-> 0, ctx |-> EmptyCtx, method |-> "",
   req |-> "", traced |-> FALSE, hctx |-> EmptyCtx, hmethod |-> "", hreq |-> "",
   hcalls |-> 0, hres |-> NoResult, ret |-> NoResult,
   ids |-> <<Zero64, Zero64>>, ndecode |-> 0, log |-> <<>>]

NoProbe == [md |-> EmptyMD, name |-> "", done |-> FALSE, id |-> Zero64]

FullMethod == "/pkg.Service/Method"
Request == "request"

\* defaults, the options, and the default service name of a constructor
NewConfig(option, default) ==
  [serviceName |-> IF option = "" THEN default ELSE option, tracer |-> "DefaultTracer"]

(***************************************************************************)
(* The server interceptor.                                                 *)
(***************************************************************************)
\* ServerEnter without the early return: a span also when Enabled() said no
ServerEnterNoCheck(c, from, ctx, fresh) ==
  /\ calls[c].pc = "idle"
  /\ LET span == serverSpan(ctx, FullMethod, cfg.server.serviceName, fresh)
     IN  /\ spans' = [spans EXCEPT ![c] = span]
         /\ calls' = [calls EXCEPT ![c] =
              [@ EXCEPT !.pc = "handler", !.kind = "server", !.from = from,
                        !.ctx = ctx, !.method = FullMethod, !.req = Request,
                        !.hreq = Request, !.hcalls = @ + 1, !.traced = enabled,
                        !.ids = getIDs(ctx), !.ndecode = @ + 1,
                        !.hctx = ContextWithSpan(ctx, c, span),
                        !.log = <<"span", "meta", "invoke">>]]
  /\ UNCHANGED <<cfg, enabled, probe>>

\* the interceptor is called: it asks Enabled(), makes the span with
\* serverSpan and calls the handler
ServerEnter(c, from, ctx, fresh) ==
  /\ calls[c].pc = "idle"
  /\ LET span   == serverSpan(ctx, FullMethod, cfg.server.serviceName, fresh)
         called == [calls[c] EXCEPT !.pc = "handler", !.kind = "server",
                      !.from = from, !.ctx = ctx, !.method = FullMethod,
                      !.req = Request, !.hreq = Request, !.hcalls = @ + 1]
     IN  IF ~enabled
         THEN /\ calls' = [calls EXCEPT ![c] =
                   [called EXCEPT !.traced = FALSE, !.hctx = ctx,
                                  !.log = <<"invoke">>]]
              /\ UNCHANGED spans
         ELSE /\ spans' = [spans EXCEPT ![c] = span]
              /\ calls' = [calls EXCEPT ![c] =
                   [called EXCEPT !.traced = TRUE, !.ids = getIDs(ctx),
                                  !.ndecode = @ + 1,
                                  !.hctx = ContextWithSpan(ctx, c, span),
                                  !.log = <<"span", "meta", "invoke">>]]
  /\ UNCHANGED <<cfg, enabled, probe>>

\* the handler returns
HandlerReturn(c, res) ==
  /\ calls[c].pc = "handler"
  /\ calls' = [calls EXCEPT ![c].pc = "handled", ![c].hres = res,
                            ![c].log = Append(@, "returned")]
  /\ UNCHANGED <<cfg, enabled, spans, probe>>

\* ServerFinish with the error kept in one place for all calls: the span is
\* finished with what the first call's handler returned
ServerFinishShared(c) ==
  /\ calls[c].pc = "handled"
  /\ calls[c].kind = "server"
  /\ calls[c].traced
  /\ spans' = [spans EXCEPT ![c] = FinishWithErr(@, calls[1].hres.err)]
  /\ calls' = [calls EXCEPT ![c].pc = "finished", ![c].log = Append(@, "finish")]
  /\ UNCHANGED <<cfg, enabled, probe>>

\* span.FinishWithErr(err)
ServerFinish(c) ==
  /\ calls[c].pc = "handled"
  /\ calls[c].kind = "server"
  /\ calls[c].traced
  /\ spans' = [spans EXCEPT ![c] = FinishWithErr(@, calls[c].hres.err)]
  /\ calls' = [calls EXCEPT ![c].pc = "finished", ![c].log = Append(@, "finish")]
  /\ UNCHANGED <<cfg, enabled, probe>>

\* ServerReturn that drops the response when the handler failed
ServerReturnNilOnError(c) ==
  /\ calls[c].kind = "server"
  /\ \/ calls[c].pc = "handled" /\ ~calls[c].traced
     \/ calls[c].pc = "finished"
  /\ calls' = [calls EXCEPT ![c].pc = "done",
                 ![c].ret = IF calls[c].hres.err = NoErr THEN calls[c].hres
                            ELSE [resp |-> "", err |-> calls[c].hres.err],
                 ![c].log = Append(@, "return")]
  /\ UNCHANGED <<cfg, enabled, spans, probe>>

\* return resp, err
ServerReturn(c) ==
  /\ calls[c].kind = "server"
  /\ \/ calls[c].pc = "handled" /\ ~calls[c].traced
     \/ calls[c].pc = "finished"
  /\ calls' = [calls EXCEPT ![c].pc = "done", ![c].ret = calls[c].hres,
                            ![c].log = Append(@, "return")]
  /\ UNCHANGED <<cfg, enabled, spans, probe>>

(***************************************************************************)
(* The client interceptor.                                                 *)
(***************************************************************************)
\* the interceptor is called: it starts the span, tags it, encodes its
\* identifiers with setIDs and calls the invoker
ClientEnter(c, ctx, fresh) ==
  /\ calls[c].pc = "idle"
  /\ LET span  == SetMeta(StartSpan(ctx, "grpc.client", fresh), "grpc.method", FullMethod)
         bound == ContextWithSpan(ctx, c, span)
     IN  /\ spans' = [spans EXCEPT ![c] = span]
         /\ calls' = [calls EXCEPT ![c] =
              [@ EXCEPT !.pc = "invoker", !.kind = "client", !.ctx = ctx,
                        !.method = FullMethod, !.req = Request, !.traced = TRUE,
                        !.hctx = setIDs(span, bound), !.hmethod = FullMethod,
                        !.hreq = Request, !.hcalls = @ + 1,
                        !.log = <<"span", "meta", "invoke">>]]
  /\ UNCHANGED <<cfg, enabled, probe>>

\* the invoker returns
InvokerReturn(c, err) ==
  /\ calls[c].pc = "invoker"
  /\ calls' = [calls EXCEPT ![c].pc = "invoked", ![c].hres = [resp |-> "", err |-> err],
                            ![c].log = Append(@, "returned")]
  /\ UNCHANGED <<cfg, enabled, spans, probe>>

\* ClientFinish with its two lines swapped: the code is tagged after the finish
ClientFinishThenTag(c) ==
  /\ calls[c].pc = "invoked"
  /\ LET err == calls[c].hres.err
     IN  spans' = [spans EXCEPT ![c] =
           SetMeta(FinishWithErr(@, err), "grpc.code", CodeString(err))]
  /\ calls' = [calls EXCEPT ![c].pc = "finished",
                            ![c].log = @ \o <<"finish", "meta">>]
  /\ UNCHANGED <<cfg, enabled, probe>>

\* span.SetMeta("grpc.code", ...); span.FinishWithErr(err)
ClientFinish(c) ==
  /\ calls[c].pc = "invoked"
  /\ LET err == calls[c].hres.err
     IN  spans' = [spans EXCEPT ![c] =
           FinishWithErr(SetMeta(@, "grpc.code", CodeString(err)), err)]
  /\ calls' = [calls EXCEPT ![c].pc = "finished",
                            ![c].log = @ \o <<"meta", "finish">>]
  /\ UNCHANGED <<cfg, enabled, probe>>

\* return err
ClientReturn(c) ==
  /\ calls[c].kind = "client"
  /\ calls[c].pc = "finished"
  /\ calls' = [calls EXCEPT ![c].pc = "done", ![c].ret = calls[c].hres,
                            ![c].log = Append(@, "return")]
  /\ UNCHANGED <<cfg, enabled, spans, probe>>

(***************************************************************************)
(* The surroundings: the tracer is switched on or off; the transport       *)
(* hands the outgoing metadata of a client call to a server call.          *)
(***************************************************************************)
SetEnabled(b) ==
  /\ enabled # b
  /\ enabled' = b
  /\ UNCHANGED <<cfg, calls, spans, probe>>

\* the context of a server call: the incoming metadata and nothing else
ServerCtx(in) == [incoming |-> in, outgoing |-> NoMD, span |-> NoSpanRef]

\* what the server receives of what the client sent
Transport(out) == SomeMD(IF out.ok THEN out.md ELSE EmptyMD)

Deliver(k, c, fresh) ==
  /\ calls[k].pc = "invoker"
  /\ ServerEnter(c, k, ServerCtx(Transport(calls[k].hctx.outgoing)), fresh)

\* one lookup of getID
Lookup ==
  /\ ~probe.done
  /\ probe' = [probe EXCEPT !.done = TRUE, !.id = getID(probe.md, probe.name)]
  /\ UNCHANGED <<cfg, enabled, calls, spans>>

(***************************************************************************)
(* Inputs.                                                                 *)
(***************************************************************************)
\* the most concurrent calls, and the most values under one key of a lookup
NCalls == 2
MaxVals == 2

\* the string of a tuple of decimal digits
Str(t) == [i \in 1..Len(t) |-> Digits[t[i] + 1]]
Abc == <<"a", "b", "c">>
\* 2^63 - 1, 2^63 and 2^64 in decimal
StrMaxInt == Str(<<9, 2, 2, 3, 3, 7, 2, 0, 3, 6, 8, 5, 4, 7, 7, 5, 8, 0, 7>>)
StrTwo63 == Str(<<9, 2, 2, 3, 3, 7, 2, 0, 3, 6, 8, 5, 4, 7, 7, 5, 8, 0, 8>>)
StrTwo64 == Str(<<1, 8, 4, 4, 6, 7, 4, 4, 0, 7, 3, 7, 0, 9, 5, 5, 1, 6, 1, 6>>)

requestIDKey == "x-request-id"
RequestID == requestIDKey :> <<Abc>>
TraceKeys(ts, ps) == (traceIDKey :> ts) @@ (parentIDKey :> ps)

\* the incoming metadata of a server call: none, no trace keys, a pair, one
\* key of the two, values Atoi refuses or reads as zero or as negative
InboundMDs ==
  { NoMD,
    SomeMD(RequestID),
    SomeMD(TraceKeys(<<Str(<<5>>)>>, <<Str(<<7>>)>>) @@ RequestID),
    SomeMD(traceIDKey :> <<Str(<<5>>)>>),
    SomeMD(parentIDKey :> <<Str(<<7>>)>>),
    SomeMD(TraceKeys(<<Abc>>, <<Str(<<7>>)>>)),
    SomeMD(TraceKeys(<<Abc, Str(<<5>>)>>, <<<<>>, Str(<<7>>)>>)),
    SomeMD(TraceKeys(<<Str(<<0>>)>>, <<Str(<<7>>)>>)),
    SomeMD(TraceKeys(<<<<"-", "1">>>>, <<Str(<<7>>)>>)),
    SomeMD(TraceKeys(<<StrTwo63>>, <<Str(<<7>>)>>)) }

\* a span bound to the context by the caller of the client interceptor
Ambient(traceID, spanID) ==
  [ok |-> TRUE, ref |-> 0, TraceID |-> traceID, SpanID |-> spanID, Service |-> "caller"]

\* the contexts of a client call: inside a server call or not, with outgoing
\* metadata of an earlier layer or not, with a span bound or not
ClientCtxs ==
  [incoming : {NoMD, SomeMD(TraceKeys(<<Str(<<5>>)>>, <<Str(<<7>>)>>))},
   outgoing : {NoMD, SomeMD(RequestID)},
   span     : {NoSpanRef, Ambient(U64(5), U64(6)), Ambient(Two63, Max64),
               Ambient(Zero64, U64(6))}]

\* the identifiers the tracer's generator hands out
FreshIDs == {U64(3), U64(70000)}

\* what a handler returns; the errors an invoker returns
HandlerResults ==
  { [resp |-> "response", err |-> NoErr],
    [resp |-> "", err |-> "Canceled"],
    [resp |-> "partial", err |-> "boom"] }
InvokerErrors == {NoErr, "Canceled", "boom"}

ServiceOptions == {"", "my-service"}

(***************************************************************************)
(* Spec: one client call and one server call, which may be the call that   *)
(* receives what the client call sent.                                     *)
(***************************************************************************)
InitCalls(n) ==
  /\ \E option \in ServiceOptions :
       cfg = [server |-> NewConfig(option, "grpc.server"),
              client |-> NewConfig(option, "grpc.client")]
  /\ enabled \in BOOLEAN
  /\ calls = [c \in 1..n |-> IdleCall]
  /\ spans = [c \in 1..n |-> NoSpan]
  /\ probe = NoProbe

Init == InitCalls(2)

Next ==
  \/ \E ctx \in ClientCtxs, fresh \in FreshIDs : ClientEnter(1, ctx, fresh)
  \/ \E err \in InvokerErrors : InvokerReturn(1, err)
  \/ ClientFinish(1)
  \/ ClientReturn(1)
  \/ \E in \in InboundMDs, fresh \in FreshIDs : ServerEnter(2, 0, ServerCtx(in), fresh)
  \/ \E fresh \in FreshIDs : Deliver(1, 2, fresh)
  \/ \E res \in HandlerResults : HandlerReturn(2, res)
  \/ ServerFinish(2)
  \/ ServerReturn(2)
  \/ \E b \in BOOLEAN : SetEnabled(b)

Spec == Init /\ [][Next]_vars

(***************************************************************************)
(* SpecConc: NCalls calls at once through the two interceptors.            *)
(***************************************************************************)
ConcInboundMDs ==
  { NoMD, SomeMD(TraceKeys(<<Str(<<5>>)>>, <<Str(<<7>>)>>)) }
ConcClientCtxs ==
  [incoming : {NoMD}, outgoing : {NoMD}, span : {NoSpanRef, Ambient(U64(5), U64(6))}]
ConcResults == {[resp |-> "response", err |-> NoErr], [resp |-> "", err |-> "Canceled"]}

InitConc == InitCalls(NCalls)

NextConc ==
  \/ \E c \in 1..NCalls, ctx \in ConcClientCtxs : ClientEnter(c, ctx, U64(c))
  \/ \E c \in 1..NCalls, res \in ConcResults : InvokerReturn(c, res.err)
  \/ \E c \in 1..NCalls : ClientFinish(c)
  \/ \E c \in 1..NCalls : ClientReturn(c)
  \/ \E c \in 1..NCalls, in \in ConcInboundMDs : ServerEnter(c, 0, ServerCtx(in), U64(c))
  \/ \E c \in 1..NCalls, res \in ConcResults : HandlerReturn(c, res)
  \/ \E c \in 1..NCalls : ServerFinish(c)
  \/ \E c \in 1..NCalls : ServerReturn(c)
  \/ \E b \in BOOLEAN : SetEnabled(b)

SpecConc == InitConc /\ [][NextConc]_vars

(***************************************************************************)
(* SpecGetID: getID on every list of at most MaxVals of these strings.     *)
(***************************************************************************)
ProbeStrs ==
  { Str(<<5>>), Str(<<0>>), Str(<<0, 0, 7>>), <<"-", "1">>, <<"+", "7">>, Abc, <<>>,
    StrMaxInt, StrTwo63, StrTwo64 }
ProbeLists == UNION {[1..n -> ProbeStrs] : n \in 0..MaxVals}
ProbeMDs == {RequestID} \cup {(traceIDKey :> strs) @@ RequestID : strs \in ProbeLists}

InitGetID ==
  /\ cfg = [server |-> NewConfig("", "grpc.server"), client |-> NewConfig("", "grpc.client")]
  /\ enabled = TRUE
  /\ calls = <<>>
  /\ spans = <<>>
  /\ \E md \in ProbeMDs : probe = [NoProbe EXCEPT !.md = md, !.name = traceIDKey]

NextGetID == Lookup

SpecGetID == InitGetID /\ [][NextGetID]_vars

(***************************************************************************)
(* Properties.                                                             *)
(***************************************************************************)
Range(seq) == {seq[i] : i \in 1..Len(seq)}
Servers == {c \in DOMAIN calls : calls[c].kind = "server"}
Clients == {c \in DOMAIN calls : calls[c].kind = "client"}
\* the server calls that decoded what client call k sent
Receivers(k) == {s \in Servers : calls[s].from = k /\ calls[s].traced}
\* the pair a span carries
Pair(span) == <<span.TraceID, span.ParentID>>

\* C1: round trip of the codec.  When setIDs encoded the pair of a client
\* span, both identifiers non-zero, into a carrier that holds nothing else,
\* and the carrier reached a server call, getIDs there returns that pair.
C1_RoundTrip ==
  \A k \in Clients : \A s \in Receivers(k) :
    (/\ ~IsZero(spans[k].TraceID)
     /\ ~IsZero(spans[k].ParentID)
     /\ ~calls[k].ctx.incoming.ok)
      => calls[s].ids = Pair(spans[k])

\* C4: merge rule of encode.  The outgoing metadata the invoker sees holds
\* every key and every value of the outgoing metadata the context already
\* carried, and the two trace keys that setIDs injected.
C4_MergeKeepsOutgoing ==
  \A k \in Clients :
    LET old == calls[k].ctx.outgoing
        new == calls[k].hctx.outgoing
    IN  /\ old.ok =>
              /\ new.ok
              /\ \A key \in DOMAIN old.md :
                   /\ key \in DOMAIN new.md
                   /\ Range(old.md[key]) \subseteq Range(new.md[key])
        /\ ~IsZero(spans[k].TraceID) =>
              /\ new.ok
              /\ Sprint(spans[k].TraceID) \in Range(Values(new.md, traceIDKey))
              /\ Sprint(spans[k].ParentID) \in Range(Values(new.md, parentIDKey))

\* what C6 asks of one value: decimal digits, a "+" before them allowed,
\* that make a number below 2^64
IsNonNegative(str) ==
  LET ds == IF str # <<>> /\ str[1] = "+" THEN Tail(str) ELSE str
  IN  /\ ds # <<>>
      /\ \A i \in 1..Len(ds) : IsDigit(ds[i])
      /\ ~ParseMag(ds, 1, Zero64).ovf
NonNegativeValue(str) ==
  ParseMag(IF str[1] = "+" THEN Tail(str) ELSE str, 1, Zero64).val
RECURSIVE FirstNonNegative(_, _)
FirstNonNegative(strs, i) ==
  IF i > Len(strs) THEN Zero64
  ELSE IF IsNonNegative(strs[i]) THEN NonNegativeValue(strs[i])
  ELSE FirstNonNegative(strs, i + 1)

\* C6: getID returns the value of the first element that is a non-negative
\* integer, skipping the non-numeric, the negative and the out-of-range
\* ones, and 0 when there is none or the key is absent.
C6_FirstNonNegative ==
  probe.done => probe.id = FirstNonNegative(Values(probe.md, probe.name), 1)

\* C7: end to end.  A client call with no span bound to its context has a
\* span with TraceID = ParentID = N > 0 and sends both trace keys with N; a
\* server call that receives that carrier has a span with TraceID = N.
C7_EndToEnd ==
  \A k \in Clients :
    ~calls[k].ctx.span.ok =>
      LET N   == spans[k].TraceID
          out == calls[k].hctx.outgoing
      IN  /\ ~IsZero(N)
          /\ spans[k].ParentID = N
          /\ out.ok
          /\ Sprint(N) \in Range(Values(out.md, traceIDKey))
          /\ Sprint(N) \in Range(Values(out.md, parentIDKey))
          /\ \A s \in Receivers(k) : spans[s].TraceID = N

\* C10: multi-hop.  When the context of a client call carries incoming
\* metadata with both trace keys, the pair decoded from the carrier the call
\* sent is the pair its own span encoded.
C10_MultiHop ==
  \A k \in Clients : \A s \in Receivers(k) :
    LET in == calls[k].ctx.incoming
    IN  (/\ in.ok
         /\ {traceIDKey, parentIDKey} \subseteq DOMAIN in.md
         /\ ~IsZero(spans[k].TraceID))
          => calls[s].ids = Pair(spans[k])

\* C2: a server call that found tracing disabled calls the handler once with
\* the context and the request it got, returns what the handler returned,
\* and makes, decodes and finishes nothing.
C2_DisabledPassThrough ==
  \A c \in Servers :
    ~calls[c].traced =>
      /\ calls[c].hcalls = 1
      /\ calls[c].hctx = calls[c].ctx
      /\ calls[c].hreq = calls[c].req
      /\ ~spans[c].exists
      /\ spans[c].nfinish = 0
      /\ calls[c].ndecode = 0
      /\ calls[c].pc = "done" => calls[c].ret = calls[c].hres

C2_Witness ==
  \E c \in Servers :
    /\ ~calls[c].traced
    /\ calls[c].pc = "done"
    /\ traceIDKey \in DOMAIN calls[c].ctx.incoming.md
    /\ calls[c].ret = [resp |-> "partial", err |-> "boom"]

\* C3: both interceptors call the wrapped function once and return what it
\* returned, whatever the carrier holds and whether tracing is on or off.
C3_PassThrough ==
  \A c \in Servers \cup Clients :
    /\ calls[c].hcalls = 1
    /\ calls[c].pc = "done" => calls[c].ret = calls[c].hres

C3_Witness ==
  /\ \E c \in Servers :
       /\ calls[c].pc = "done"
       /\ calls[c].traced
       /\ calls[c].ctx.incoming = SomeMD(TraceKeys(<<Abc>>, <<Str(<<7>>)>>))
       /\ calls[c].ret = [resp |-> "partial", err |-> "boom"]
  /\ \E c \in Clients :
       /\ calls[c].pc = "done"
       /\ calls[c].ret.err = "Canceled"

\* C5: the span of a traced server call has the decoded pair when both
\* decoded identifiers are non-zero, and otherwise the identifiers the
\* tracer gave it; never one identifier of each.
C5_Continuation ==
  \A c \in Servers :
    calls[c].traced =>
      LET ids == calls[c].ids
      IN  /\ ids = getIDs(calls[c].ctx)
          /\ IF ~IsZero(ids[1]) /\ ~IsZero(ids[2])
             THEN Pair(spans[c]) = ids
             ELSE Pair(spans[c]) = spans[c].assigned

C5_Witness ==
  \E c \in Servers :
    /\ calls[c].traced
    /\ ~IsZero(calls[c].ids[1])
    /\ IsZero(calls[c].ids[2])
    /\ Pair(spans[c]) = spans[c].assigned
    /\ spans[c].assigned # calls[c].ids

\* what a call owes to nothing but itself: its span, the identifiers of the
\* span (decoded from its own context, or the one the generator gave it, which
\* under SpecConc is c for call c), the context of the wrapped function, the
\* error of the span, the result
OwnState(c) ==
  /\ spans[c].exists <=> calls[c].traced
  /\ calls[c].traced => calls[c].hctx.span.ref = c
  /\ calls[c].hctx.incoming = calls[c].ctx.incoming
  /\ (calls[c].kind = "server" /\ calls[c].traced) =>
       LET ids == getIDs(calls[c].ctx)
       IN  Pair(spans[c]) = IF ~IsZero(ids[1]) /\ ~IsZero(ids[2]) THEN ids
                            ELSE <<U64(c), Zero64>>
  /\ spans[c].finished => spans[c].Err = calls[c].hres.err
  /\ calls[c].pc = "done" => calls[c].ret = calls[c].hres

\* C8: with calls going on at once, no step writes the configuration, a step
\* that changes a span is a step of the call that made it and changes no
\* other call, and what a call passes on, records and returns is its own.
C8_Isolation ==
  /\ [][cfg' = cfg]_vars
  /\ [][\A c \in DOMAIN calls :
          spans'[c] # spans[c] =>
            /\ calls'[c].pc # calls[c].pc
            /\ \A d \in DOMAIN calls \ {c} :
                 calls'[d] = calls[d] /\ spans'[d] = spans[d]]_vars
  /\ [](\A c \in Servers \cup Clients : OwnState(c))

C8_Witness ==
  \E c, d \in Servers :
    /\ c # d
    /\ calls[c].traced /\ calls[d].traced
    /\ calls[c].pc = "done" /\ calls[d].pc = "finished"
    /\ calls[c].ctx # calls[d].ctx
    /\ spans[c].TraceID # spans[d].TraceID
    /\ spans[c].Err = "Canceled" /\ spans[d].Err = NoErr

IsPrefix(a, b) == Len(a) <= Len(b) /\ SubSeq(b, 1, Len(a)) = a
ServerSteps == <<"span", "meta", "invoke", "returned", "finish", "return">>
ClientSteps == <<"span", "meta", "invoke", "returned", "meta", "finish", "return">>

\* the span of call c is where the position of c says it is
Lifecycle(c) ==
  /\ IsPrefix(calls[c].log, IF calls[c].kind = "server" THEN ServerSteps ELSE ClientSteps)
  /\ ~spans[c].late
  /\ (IF calls[c].kind = "server" THEN "gprc.method" ELSE "grpc.method")
       \in DOMAIN spans[c].Meta
  /\ calls[c].pc \in {"handler", "handled", "invoker", "invoked"} =>
       /\ ~spans[c].finished
       /\ spans[c].nfinish = 0
       /\ "grpc.code" \notin DOMAIN spans[c].Meta
  /\ calls[c].pc \in {"finished", "done"} =>
       /\ spans[c].finished
       /\ spans[c].nfinish = 1
       /\ spans[c].Err = calls[c].hres.err
       /\ calls[c].kind = "client" =>
            /\ "grpc.code" \in DOMAIN spans[c].Meta
            /\ spans[c].Meta["grpc.code"] = CodeString(calls[c].hres.err)

\* C9: the span is made before the wrapped function is called, is finished
\* once, after the wrapped function returned and before the interceptor
\* returns, with the error the wrapped function returned; every tag is set
\* before the finish and a finished span is not touched again.
C9_Lifecycle ==
  /\ [](\A c \in Servers \cup Clients : calls[c].traced => Lifecycle(c))
  /\ [][\A c \in DOMAIN calls : spans[c].finished => spans'[c] = spans[c]]_vars

C9_Witness ==
  \E c \in Clients :
    /\ calls[c].pc = "done"
    /\ calls[c].hres.err = "Canceled"
    /\ spans[c].finished
    /\ spans[c].Err = "Canceled"
    /\ spans[c].Meta["grpc.code"] = "Canceled"
====
